---- MODULE Spec2Model ----
(***************************************************************************)
(* Model of ObjectFactory (src/src/ObjectFactory.ts): a construction-      *)
(* interception registry with a one-shot queue, a persistent override and  *)
(* an object <-> id registry.                                              *)
(*                                                                         *)
(* Encoding of JavaScript values:                                          *)
(*   - an object is a reference: its index in `heap`; identity is equality *)
(*     of references;                                                      *)
(*   - an optional value (T | undefined) is a sequence of length 0 or 1:   *)
(*     undefined is <<>>, a present value x is <<x>>;                      *)
(*   - a Map is a function whose DOMAIN is the set of keys present.        *)
(***************************************************************************)
EXTENDS Integers, Sequences, FiniteSets, TLC

VARIABLES factory, heap, last, queueLog, servedLog, alwaysLog, autoLog,
          callable, globalInstance, factoryCount, globalAlways

vars == <<factory, heap, last, queueLog, servedLog, alwaysLog, autoLog,
          callable, globalInstance, factoryCount, globalAlways>>

(***************************************************************************)
(* Bounds of the model.                                                    *)
(***************************************************************************)
\* at most MaxQueue instances are passed to setOne and not cleared since
MaxQueue == 2
\* at most MaxObjects objects are ever allocated
MaxObjects == 4
\* the auto id counter is never pushed beyond MaxCounter
MaxCounter == 3

(***************************************************************************)
(* Inputs.                                                                 *)
(***************************************************************************)
\* the constructors used as type keys (test classes of the repository)
Ctors == {"TestClass", "TrackedService"}

\* a class whose constructor throws, whatever its arguments
FailingCtors == {"FailingService"}

AllCtors == Ctors \cup FailingCtors

\* whether `new ctor(...args)` throws
ConstructorThrows(ctor, args) == ctor \in FailingCtors

\* typeof <instance of class>.constructorCalledWith
MemberType(class) ==
    IF class = "TrackedService" THEN "function" ELSE "undefined"

\* argument lists: a value is [kind, lit], kind the kind of JavaScript value
\* and lit its literal
ArgLists ==
    { <<>>,
      << [kind |-> "string", lit |-> "localhost"],
         [kind |-> "number", lit |-> "8080"],
         [kind |-> "null",   lit |-> "null"] >>,
      << [kind |-> "bigint", lit |-> "10"],
         [kind |-> "symbol", lit |-> "s"] >> }

\* explicit ids passed to register, and the ids looked up
Ids == {"", "first", "auto_2"}

\* the objects the test built itself, before any call to the factory
InitialHeap == <<"TestClass", "TrackedService">>

\* the references of those objects
Mocks == 1..Len(InitialHeap)

undefined == <<>>

(***************************************************************************)
(* JavaScript primitives used by the code.                                 *)
(***************************************************************************)
EmptyMap == [k \in {} |-> k]

MapHas(m, k) == k \in DOMAIN m

MapGet(m, k) == IF k \in DOMAIN m THEN <<m[k]>> ELSE undefined

MapSet(m, k, v) == [x \in (DOMAIN m) \cup {k} |-> IF x = k THEN v ELSE m[x]]

MapDelete(m, k) == [x \in (DOMAIN m) \ {k} |-> m[x]]

\* truthiness of an optional string: undefined and "" are falsy
Truthy(id) == id # undefined /\ id[1] # ""

\* the typeof operator
TypeOf(value) ==
    CASE value.kind = "string"    -> "string"
      [] value.kind = "number"    -> "number"
      [] value.kind = "boolean"   -> "boolean"
      [] value.kind = "undefined" -> "undefined"
      [] value.kind = "function"  -> "function"
      [] value.kind = "bigint"    -> "bigint"
      [] value.kind = "symbol"    -> "symbol"
      [] OTHER                    -> "object"

\* decimal digits of a natural number, as template literals print it
RECURSIVE NumberToString(_)
NumberToString(n) ==
    LET digit == CASE n % 10 = 0 -> "0" [] n % 10 = 1 -> "1"
                   [] n % 10 = 2 -> "2" [] n % 10 = 3 -> "3"
                   [] n % 10 = 4 -> "4" [] n % 10 = 5 -> "5"
                   [] n % 10 = 6 -> "6" [] n % 10 = 7 -> "7"
                   [] n % 10 = 8 -> "8" [] OTHER      -> "9"
    IN  IF n < 10 THEN digit ELSE NumberToString(n \div 10) \o digit

\* `auto_${n}`
AutoId(n) == "auto_" \o NumberToString(n)

(***************************************************************************)
(* class ObjectFactory                                                     *)
(***************************************************************************)
\* the fields of a freshly constructed ObjectFactory
ObjectFactory ==
    [ queuedObjects     |-> EmptyMap,
      alwaysObjects     |-> EmptyMap,
      registeredObjects |-> EmptyMap,
      registeredIds     |-> EmptyMap,
      autoIdCounter     |-> 1 ]

implementsConstructorTracking(h, obj) ==
    MemberType(h[obj]) = "function"

\* extractParameterInfo with one-based positions
extractParameterInfo_OneBased(args) ==
    [ i \in 1..Len(args) |->
        [ index |-> i, type |-> TypeOf(args[i]), value |-> args[i] ] ]

extractParameterInfo(args) ==
    [ i \in 1..Len(args) |->
        [ index |-> i - 1, type |-> TypeOf(args[i]), value |-> args[i] ] ]

\* the outcome of create when `new ctor(...args)` throws: the error reaches
\* the caller, nothing is returned
Thrown(self, h) ==
    [ self |-> self, heap |-> h, result |-> 0, constructed |-> undefined,
      hookCalls |-> <<>>, threw |-> TRUE ]

\* the outcome of create when `new ctor(...args)` returns
Constructed(self, h, ctor, args) ==
    LET newHeap  == Append(h, ctor)
        instance == Len(newHeap)
    IN [ self        |-> self,
         heap        |-> newHeap,
         result      |-> instance,
         constructed |-> <<instance>>,
         hookCalls   |->
             IF implementsConstructorTracking(newHeap, instance)
             THEN << [ instance |-> instance,
                       params   |-> extractParameterInfo(args) ] >>
             ELSE <<>>,
         threw       |-> FALSE ]

\* the outcome of create when it returns an existing object
Returned(self, h, instance) ==
    [ self |-> self, heap |-> h, result |-> instance,
      constructed |-> undefined, hookCalls |-> <<>>, threw |-> FALSE ]

\* create consulting alwaysObjects before queuedObjects
create_AlwaysFirst(self, h, ctor, args) ==
    LET queued == MapGet(self.queuedObjects, ctor) IN
    IF MapHas(self.alwaysObjects, ctor)
    THEN Returned(self, h, self.alwaysObjects[ctor])
    ELSE IF queued # undefined /\ Len(queued[1]) > 0
    THEN Returned([self EXCEPT !.queuedObjects =
                      MapSet(@, ctor, Tail(queued[1]))],
                  h, Head(queued[1]))
    ELSE IF ConstructorThrows(ctor, args)
    THEN Thrown(self, h)
    ELSE Constructed(self, h, ctor, args)

\* create dropping the alwaysObjects entry it returns
create_ConsumeAlways(self, h, ctor, args) ==
    LET queued == MapGet(self.queuedObjects, ctor) IN
    IF queued # undefined /\ Len(queued[1]) > 0
    THEN Returned([self EXCEPT !.queuedObjects =
                      MapSet(@, ctor, Tail(queued[1]))],
                  h, Head(queued[1]))
    ELSE IF MapHas(self.alwaysObjects, ctor)
    THEN Returned([self EXCEPT !.alwaysObjects = MapDelete(@, ctor)],
                  h, self.alwaysObjects[ctor])
    ELSE IF ConstructorThrows(ctor, args)
    THEN Thrown(self, h)
    ELSE Constructed(self, h, ctor, args)

\* create notifying whatever object it returns
create_NotifyOverride(self, h, ctor, args) ==
    LET queued == MapGet(self.queuedObjects, ctor)
        notify(r) ==
            [r EXCEPT !.hookCalls =
                IF implementsConstructorTracking(r.heap, r.result)
                THEN << [ instance |-> r.result,
                          params   |-> extractParameterInfo(args) ] >>
                ELSE <<>>]
    IN
    IF queued # undefined /\ Len(queued[1]) > 0
    THEN notify(Returned([self EXCEPT !.queuedObjects =
                             MapSet(@, ctor, Tail(queued[1]))],
                         h, Head(queued[1])))
    ELSE IF MapHas(self.alwaysObjects, ctor)
    THEN notify(Returned(self, h, self.alwaysObjects[ctor]))
    ELSE IF ConstructorThrows(ctor, args)
    THEN Thrown(self, h)
    ELSE Constructed(self, h, ctor, args)

\* create swallowing the error of the constructor
create_SwallowError(self, h, ctor, args) ==
    LET queued == MapGet(self.queuedObjects, ctor) IN
    IF queued # undefined /\ Len(queued[1]) > 0
    THEN Returned([self EXCEPT !.queuedObjects =
                      MapSet(@, ctor, Tail(queued[1]))],
                  h, Head(queued[1]))
    ELSE IF MapHas(self.alwaysObjects, ctor)
    THEN Returned(self, h, self.alwaysObjects[ctor])
    ELSE IF ConstructorThrows(ctor, args)
    THEN [Thrown(self, h) EXCEPT !.threw = FALSE]
    ELSE Constructed(self, h, ctor, args)

\* the callable returned by create(ctor), applied to args.
\* result: the returned object; constructed: the reference built by
\* `new ctor(...args)` if any; hookCalls: the calls of constructorCalledWith;
\* threw: whether the call ended with the error of the constructor
\* create keeping the instance it constructed as the persistent override
create_CacheBuilt(self, h, ctor, args) ==
    LET queued == MapGet(self.queuedObjects, ctor) IN
    IF queued # undefined /\ Len(queued[1]) > 0
    THEN Returned([self EXCEPT !.queuedObjects =
                                   MapSet(@, ctor, Tail(queued[1]))],
                  h, Head(queued[1]))
    ELSE IF MapHas(self.alwaysObjects, ctor)
    THEN Returned(self, h, self.alwaysObjects[ctor])
    ELSE IF ConstructorThrows(ctor, args)
    THEN Thrown(self, h)
    ELSE LET r == Constructed(self, h, ctor, args)
         IN [r EXCEPT !.self.alwaysObjects = MapSet(@, ctor, r.result)]

create(self, h, ctor, args) ==
    LET queued == MapGet(self.queuedObjects, ctor) IN
    IF queued # undefined /\ Len(queued[1]) > 0
    THEN Returned([self EXCEPT !.queuedObjects =
                      MapSet(@, ctor, Tail(queued[1]))],
                  h, Head(queued[1]))
    ELSE IF MapHas(self.alwaysObjects, ctor)
    THEN Returned(self, h, self.alwaysObjects[ctor])
    ELSE IF ConstructorThrows(ctor, args)
    THEN Thrown(self, h)
    ELSE Constructed(self, h, ctor, args)

\* create(ctor): the function it returns refers to `this` and to ctor.
\* boundAt, the fields of the factory when the function was made, is kept
\* for the record only: the code takes no such copy
createCallable(self, ctor) == [ctor |-> ctor, boundAt |-> self]

\* a call deciding on the persistent overrides of the time the function was
\* made
invoke_Cached(closure, self, h, args) ==
    LET r == create([self EXCEPT !.alwaysObjects =
                        closure.boundAt.alwaysObjects],
                    h, closure.ctor, args)
    IN [r EXCEPT !.self.alwaysObjects = self.alwaysObjects]

\* a call of the function returned by create(ctor), on the factory as it is
\* at the time of the call
invoke(closure, self, h, args) == create(self, h, closure.ctor, args)

\* setOne inserting at the front of the queue
setOne_Unshift(self, ctor, instance) ==
    LET q == IF ~MapHas(self.queuedObjects, ctor)
             THEN MapSet(self.queuedObjects, ctor, <<>>)
             ELSE self.queuedObjects
    IN [self EXCEPT !.queuedObjects = MapSet(q, ctor, <<instance>> \o q[ctor])]

\* setOne skipping an instance that is already queued
setOne_Dedup(self, ctor, instance) ==
    LET q == IF ~MapHas(self.queuedObjects, ctor)
             THEN MapSet(self.queuedObjects, ctor, <<>>)
             ELSE self.queuedObjects
    IN IF \E i \in 1..Len(q[ctor]) : q[ctor][i] = instance
       THEN [self EXCEPT !.queuedObjects = q]
       ELSE [self EXCEPT !.queuedObjects =
                MapSet(q, ctor, Append(q[ctor], instance))]

\* setOne using up an automatic id
setOne_CountId(self, ctor, instance) ==
    LET q == IF ~MapHas(self.queuedObjects, ctor)
             THEN MapSet(self.queuedObjects, ctor, <<>>)
             ELSE self.queuedObjects
    IN [self EXCEPT !.queuedObjects =
                        MapSet(q, ctor, Append(q[ctor], instance)),
                    !.autoIdCounter = @ + 1]

setOne(self, ctor, instance) ==
    LET q == IF ~MapHas(self.queuedObjects, ctor)
             THEN MapSet(self.queuedObjects, ctor, <<>>)
             ELSE self.queuedObjects
    IN [self EXCEPT !.queuedObjects = MapSet(q, ctor, Append(q[ctor], instance))]

\* setAlways keeping an override that is already set
setAlways_FirstWins(self, ctor, instance) ==
    IF MapHas(self.alwaysObjects, ctor) THEN self
    ELSE [self EXCEPT !.alwaysObjects = MapSet(@, ctor, instance)]

\* setAlways discarding what is queued for the constructor
setAlways_DropQueue(self, ctor, instance) ==
    [self EXCEPT !.alwaysObjects = MapSet(@, ctor, instance),
                 !.queuedObjects = MapDelete(@, ctor)]

setAlways(self, ctor, instance) ==
    [self EXCEPT !.alwaysObjects = MapSet(@, ctor, instance)]

\* clear forgetting the persistent override
clear_QueueOnly(self, ctor) ==
    IF ctor # undefined
    THEN [self EXCEPT !.queuedObjects = MapDelete(@, ctor[1])]
    ELSE self

\* clear also resetting the registry of ids
clear_AlsoRegistry(self, ctor) ==
    IF ctor # undefined
    THEN [self EXCEPT !.queuedObjects = MapDelete(@, ctor[1]),
                      !.alwaysObjects = MapDelete(@, ctor[1]),
                      !.registeredObjects = EmptyMap,
                      !.registeredIds     = EmptyMap,
                      !.autoIdCounter     = 1]
    ELSE self

\* clear without a constructor resetting everything
clear_AllWithoutType(self, ctor) ==
    IF ctor # undefined
    THEN [self EXCEPT !.queuedObjects = MapDelete(@, ctor[1]),
                      !.alwaysObjects = MapDelete(@, ctor[1])]
    ELSE [self EXCEPT !.queuedObjects     = EmptyMap,
                      !.alwaysObjects     = EmptyMap,
                      !.registeredObjects = EmptyMap,
                      !.registeredIds     = EmptyMap,
                      !.autoIdCounter     = 1]

\* ctor is optional; a constructor function is always truthy
clear(self, ctor) ==
    IF ctor # undefined
    THEN [self EXCEPT !.queuedObjects = MapDelete(@, ctor[1]),
                      !.alwaysObjects = MapDelete(@, ctor[1])]
    ELSE self

\* clearAll leaving the counter where it is
clearAll_KeepCounter(self) ==
    [self EXCEPT !.queuedObjects     = EmptyMap,
                 !.alwaysObjects     = EmptyMap,
                 !.registeredObjects = EmptyMap,
                 !.registeredIds     = EmptyMap]

clearAll(self) ==
    [self EXCEPT !.queuedObjects     = EmptyMap,
                 !.alwaysObjects     = EmptyMap,
                 !.registeredObjects = EmptyMap,
                 !.registeredIds     = EmptyMap,
                 !.autoIdCounter     = 1]

\* register answering the new id when it relabels
register_ReturnNew(self, obj, id) ==
    LET objectId == IF Truthy(id) THEN id[1] ELSE AutoId(self.autoIdCounter)
        counted  == IF Truthy(id) THEN self
                    ELSE [self EXCEPT !.autoIdCounter = @ + 1]
    IN
    IF MapHas(counted.registeredIds, obj)
    THEN LET existingId == counted.registeredIds[obj] IN
         IF Truthy(id) /\ existingId # id[1]
         THEN [ self |->
                  [counted EXCEPT
                     !.registeredObjects =
                         MapSet(MapDelete(@, existingId), objectId, obj),
                     !.registeredIds = MapSet(@, obj, objectId)],
                result |-> objectId ]
         ELSE [ self |-> counted, result |-> existingId ]
    ELSE [ self |->
             [counted EXCEPT
                !.registeredObjects = MapSet(@, objectId, obj),
                !.registeredIds     = MapSet(@, obj, objectId)],
           result |-> objectId ]

\* register keeping the old id -> object entry when it relabels
register_KeepOld(self, obj, id) ==
    LET objectId == IF Truthy(id) THEN id[1] ELSE AutoId(self.autoIdCounter)
        counted  == IF Truthy(id) THEN self
                    ELSE [self EXCEPT !.autoIdCounter = @ + 1]
    IN
    IF MapHas(counted.registeredIds, obj)
    THEN LET existingId == counted.registeredIds[obj] IN
         IF Truthy(id) /\ existingId # id[1]
         THEN [ self |->
                  [counted EXCEPT
                     !.registeredObjects = MapSet(@, objectId, obj),
                     !.registeredIds = MapSet(@, obj, objectId)],
                result |-> existingId ]
         ELSE [ self |-> counted, result |-> existingId ]
    ELSE [ self |->
             [counted EXCEPT
                !.registeredObjects = MapSet(@, objectId, obj),
                !.registeredIds     = MapSet(@, obj, objectId)],
           result |-> objectId ]

\* register advancing the counter on every call
register_AlwaysCount(self, obj, id) ==
    LET objectId == IF Truthy(id) THEN id[1] ELSE AutoId(self.autoIdCounter)
        counted  == [self EXCEPT !.autoIdCounter = @ + 1]
    IN
    IF MapHas(counted.registeredIds, obj)
    THEN LET existingId == counted.registeredIds[obj] IN
         IF Truthy(id) /\ existingId # id[1]
         THEN [ self |->
                  [counted EXCEPT
                     !.registeredObjects =
                         MapSet(MapDelete(@, existingId), objectId, obj),
                     !.registeredIds = MapSet(@, obj, objectId)],
                result |-> existingId ]
         ELSE [ self |-> counted, result |-> existingId ]
    ELSE [ self |->
             [counted EXCEPT
                !.registeredObjects = MapSet(@, objectId, obj),
                !.registeredIds     = MapSet(@, obj, objectId)],
           result |-> objectId ]

\* id is optional.  The counter is read and incremented whenever id is falsy,
\* before the object is looked up.
\* register taking the empty string for an id that was given
register_EmptyIsLabel(self, obj, id) ==
    LET given    == id # undefined
        objectId == IF given THEN id[1] ELSE AutoId(self.autoIdCounter)
        counted  == IF given THEN self
                    ELSE [self EXCEPT !.autoIdCounter = @ + 1]
    IN
    IF MapHas(counted.registeredIds, obj)
    THEN LET existingId == counted.registeredIds[obj] IN
         IF given /\ existingId # id[1]
         THEN [ self |->
                  [counted EXCEPT
                     !.registeredObjects =
                         MapSet(MapDelete(@, existingId), objectId, obj),
                     !.registeredIds = MapSet(@, obj, objectId)],
                result |-> existingId ]
         ELSE [ self |-> counted, result |-> existingId ]
    ELSE [ self |->
             [counted EXCEPT
                !.registeredObjects = MapSet(@, objectId, obj),
                !.registeredIds     = MapSet(@, obj, objectId)],
           result |-> objectId ]

register(self, obj, id) ==
    LET objectId == IF Truthy(id) THEN id[1] ELSE AutoId(self.autoIdCounter)
        counted  == IF Truthy(id) THEN self
                    ELSE [self EXCEPT !.autoIdCounter = @ + 1]
    IN
    IF MapHas(counted.registeredIds, obj)
    THEN LET existingId == counted.registeredIds[obj] IN
         IF Truthy(id) /\ existingId # id[1]
         THEN [ self |->
                  [counted EXCEPT
                     !.registeredObjects =
                         MapSet(MapDelete(@, existingId), objectId, obj),
                     !.registeredIds = MapSet(@, obj, objectId)],
                result |-> existingId ]
         ELSE [ self |-> counted, result |-> existingId ]
    ELSE [ self |->
             [counted EXCEPT
                !.registeredObjects = MapSet(@, objectId, obj),
                !.registeredIds     = MapSet(@, obj, objectId)],
           result |-> objectId ]

\* getRegistered answering with some object when the id is not known
getRegistered_Default(self, id) ==
    IF MapHas(self.registeredObjects, id)
    THEN <<self.registeredObjects[id]>> ELSE <<1>>

getRegistered(self, id) == MapGet(self.registeredObjects, id)

getRegisteredId(self, obj) == MapGet(self.registeredIds, obj)

(***************************************************************************)
(* The module: globalInstance, getInstance and the free functions.  g is   *)
(* the value of globalInstance, undefined or <<[ref, state]>> with ref the *)
(* identity of the ObjectFactory object and state its fields; n is the     *)
(* number of ObjectFactory objects constructed so far, so that a new one   *)
(* has identity n + 1.                                                     *)
(***************************************************************************)
\* getInstance constructing a factory on every call
getInstance_AlwaysNew(g, n) ==
    [ global |-> <<[ref |-> n + 1, state |-> ObjectFactory]>>,
      count  |-> n + 1,
      result |-> n + 1 ]

\* getInstance handing out the factory that the test constructed
getInstance_Manual(g, n) ==
    [ global |-> <<[ref |-> 1, state |-> factory]>>,
      count  |-> n,
      result |-> 1 ]

getInstance(g, n) ==
    IF g = undefined
    THEN [ global |-> <<[ref |-> n + 1, state |-> ObjectFactory]>>,
           count  |-> n + 1,
           result |-> n + 1 ]
    ELSE [ global |-> g, count |-> n, result |-> g[1].ref ]

\* what a call on the instance i.result leaves behind: the instance with
\* the fields self, the objects h, and the object or the id it returned
Outcome(i, self, h, retObj, retId) ==
    [ global      |-> <<[ref |-> i.result, state |-> self]>>,
      count       |-> i.count,
      heap        |-> h,
      retObj      |-> retObj,
      retId       |-> retId,
      constructed |-> undefined,
      hookCalls   |-> <<>>,
      threw       |-> FALSE ]

\* what create(ctor)(...args) on the instance i.result leaves behind, r being
\* the result of create on its fields
Built(i, r) ==
    [ Outcome(i, r.self, r.heap,
              IF r.threw THEN undefined ELSE <<r.result>>, undefined)
        EXCEPT !.constructed = r.constructed,
               !.hookCalls   = r.hookCalls,
               !.threw       = r.threw ]

\* x.method(...) on the instance that i, a result of getInstance, returned;
\* a holds the arguments of the call
callMethod(op, i, h, a) ==
    LET self == i.global[1].state IN
    CASE op = "create" ->
           Built(i, create(self, h, a.ctor[1], a.args))
      [] op = "setOne" ->
           Outcome(i, setOne(self, a.ctor[1], a.instance[1]), h,
                   undefined, undefined)
      [] op = "setAlways" ->
           Outcome(i, setAlways(self, a.ctor[1], a.instance[1]), h,
                   undefined, undefined)
      [] op = "clear" ->
           Outcome(i, clear(self, a.ctor), h, undefined, undefined)
      [] op = "clearAll" ->
           Outcome(i, clearAll(self), h, undefined, undefined)
      [] op = "register" ->
           LET r == register(self, a.obj[1], a.id)
           IN Outcome(i, r.self, h, undefined, <<r.result>>)
      [] op = "getRegistered" ->
           Outcome(i, self, h, getRegistered(self, a.id[1]), undefined)

exports_create(g, n, h, ctor, args) ==
    LET i == getInstance(g, n)
    IN Built(i, create(i.global[1].state, h, ctor, args))

exports_setOne(g, n, h, ctor, instance) ==
    LET i == getInstance(g, n)
    IN Outcome(i, setOne(i.global[1].state, ctor, instance), h,
               undefined, undefined)

\* setAlways on a factory other than the shared one
exports_setAlways_OwnFactory(g, n, h, ctor, instance) ==
    LET i == getInstance(g, n)
    IN Outcome(i, i.global[1].state, h, undefined, undefined)

exports_setAlways(g, n, h, ctor, instance) ==
    LET i == getInstance(g, n)
    IN Outcome(i, setAlways(i.global[1].state, ctor, instance), h,
               undefined, undefined)

exports_clear(g, n, h, ctor) ==
    LET i == getInstance(g, n)
    IN Outcome(i, clear(i.global[1].state, ctor), h, undefined, undefined)

exports_clearAll(g, n, h) ==
    LET i == getInstance(g, n)
    IN Outcome(i, clearAll(i.global[1].state), h, undefined, undefined)

exports_register(g, n, h, obj, id) ==
    LET i == getInstance(g, n)
        r == register(i.global[1].state, obj, id)
    IN Outcome(i, r.self, h, undefined, <<r.result>>)

exports_getRegistered(g, n, h, id) ==
    LET i == getInstance(g, n)
    IN Outcome(i, i.global[1].state, h,
               getRegistered(i.global[1].state, id), undefined)

\* the free function of the name op, called with the arguments a
callFree(op, g, n, h, a) ==
    CASE op = "create"        -> exports_create(g, n, h, a.ctor[1], a.args)
      [] op = "setOne"        -> exports_setOne(g, n, h, a.ctor[1],
                                                a.instance[1])
      [] op = "setAlways"     -> exports_setAlways(g, n, h, a.ctor[1],
                                                   a.instance[1])
      [] op = "clear"         -> exports_clear(g, n, h, a.ctor)
      [] op = "clearAll"      -> exports_clearAll(g, n, h)
      [] op = "register"      -> exports_register(g, n, h, a.obj[1], a.id)
      [] op = "getRegistered" -> exports_getRegistered(g, n, h, a.id[1])

(***************************************************************************)
(* The state machine: one ObjectFactory driven by a test.                  *)
(*   factory   the fields of the ObjectFactory                             *)
(*   heap      the class of every object allocated so far                  *)
(*   last      the last call: its arguments, its results and the fields    *)
(*             of the factory just before it                               *)
(*   queueLog  per constructor, the instances passed to setOne since the   *)
(*             constructor was last cleared                                *)
(*   servedLog per constructor, the results of the create calls made while *)
(*             fewer instances had been served than queued                 *)
(*   alwaysLog per constructor, the instance of the latest setAlways since *)
(*             the constructor was last cleared, if any                    *)
(*   autoLog   the ids handed out to unregistered objects by register      *)
(*             calls without a usable id, since the last clearAll          *)
(*   callable  the function returned by the latest factory.create(ctor)    *)
(*             that the test kept, if any                                  *)
(*   globalInstance  the module variable of that name: the shared          *)
(*             ObjectFactory, if it exists, as [ref, state]                *)
(*   factoryCount    the number of ObjectFactory objects constructed; the  *)
(*             factory of the test is the first                            *)
(*   globalAlways    per constructor, the instance and the route (free     *)
(*             function or method of getInstance()) of the latest          *)
(*             setAlways on the shared factory since it was last cleared   *)
(***************************************************************************)
Objects == 1..Len(heap)

globalVars == <<globalInstance, factoryCount, globalAlways>>

factoryLogs == <<queueLog, servedLog, alwaysLog, autoLog>>

LookupIds == Ids \cup {AutoId(n) : n \in 1..MaxCounter}

OptionalIds == {undefined} \cup {<<i>> : i \in Ids}

OptionalCtors == {undefined} \cup {<<c>> : c \in Ctors}

QueueOf(self, ctor) ==
    IF MapHas(self.queuedObjects, ctor) THEN self.queuedObjects[ctor] ELSE <<>>

NoLog == [c \in AllCtors |-> <<>>]

RECURSIVE TotalLen(_, _)
TotalLen(log, S) ==
    IF S = {} THEN 0
    ELSE LET c == CHOOSE x \in S : TRUE
         IN Len(log[c]) + TotalLen(log, S \ {c})

Call(op) ==
    [ op          |-> op,
      ctor        |-> undefined,
      args        |-> <<>>,
      instance    |-> undefined,
      obj         |-> undefined,
      id          |-> undefined,
      retObj      |-> undefined,
      retId       |-> undefined,
      constructed |-> undefined,
      hookCalls   |-> <<>>,
      pending     |-> 0,
      threw       |-> FALSE,
      pre         |-> factory,
      preObjects  |-> Len(heap),
      target      |-> "factory",
      via         |-> "method",
      retInstance |-> undefined,
      preGlobal   |-> globalInstance,
      preCount    |-> factoryCount ]

Init ==
    /\ factory = ObjectFactory
    /\ heap = InitialHeap
    /\ callable = undefined
    /\ globalInstance = undefined
    /\ factoryCount = 1
    /\ globalAlways = [c \in Ctors |-> undefined]
    /\ last = [Call("new") EXCEPT !.pre = ObjectFactory,
                                  !.preObjects = Len(InitialHeap),
                                  !.preGlobal = undefined,
                                  !.preCount = 1]
    /\ queueLog = NoLog
    /\ servedLog = NoLog
    /\ alwaysLog = [c \in AllCtors |-> undefined]
    /\ autoLog = <<>>

Create(ctor, args) ==
    LET r       == create(factory, heap, ctor, args)
        pending == Len(queueLog[ctor]) - Len(servedLog[ctor])
    IN /\ Len(r.heap) <= MaxObjects
       /\ factory' = r.self
       /\ heap' = r.heap
       /\ last' = [Call("create") EXCEPT !.ctor = <<ctor>>, !.args = args,
                                         !.retObj = IF r.threw THEN undefined
                                                    ELSE <<r.result>>,
                                         !.threw = r.threw,
                                         !.constructed = r.constructed,
                                         !.hookCalls = r.hookCalls,
                                         !.pending = pending]
       /\ servedLog' = IF pending > 0
                       THEN [servedLog EXCEPT ![ctor] = Append(@, r.result)]
                       ELSE servedLog
       /\ UNCHANGED <<queueLog, alwaysLog, autoLog>>
       /\ UNCHANGED <<callable, globalVars>>

SetOne(ctor, instance) ==
    /\ TotalLen(queueLog, AllCtors) < MaxQueue
    /\ factory' = setOne(factory, ctor, instance)
    /\ last' = [Call("setOne") EXCEPT !.ctor = <<ctor>>,
                                      !.instance = <<instance>>]
    /\ queueLog' = [queueLog EXCEPT ![ctor] = Append(@, instance)]
    /\ UNCHANGED <<heap, servedLog, alwaysLog, autoLog>>
    /\ UNCHANGED <<callable, globalVars>>

SetAlways(ctor, instance) ==
    /\ factory' = setAlways(factory, ctor, instance)
    /\ last' = [Call("setAlways") EXCEPT !.ctor = <<ctor>>,
                                         !.instance = <<instance>>]
    /\ alwaysLog' = [alwaysLog EXCEPT ![ctor] = <<instance>>]
    /\ UNCHANGED <<heap, queueLog, servedLog, autoLog>>
    /\ UNCHANGED <<callable, globalVars>>

Clear(ctor) ==
    /\ factory' = clear(factory, ctor)
    /\ last' = [Call("clear") EXCEPT !.ctor = ctor]
    /\ queueLog' = IF ctor # undefined
                   THEN [queueLog EXCEPT ![ctor[1]] = <<>>] ELSE queueLog
    /\ servedLog' = IF ctor # undefined
                    THEN [servedLog EXCEPT ![ctor[1]] = <<>>] ELSE servedLog
    /\ alwaysLog' = IF ctor # undefined
                    THEN [alwaysLog EXCEPT ![ctor[1]] = undefined]
                    ELSE alwaysLog
    /\ UNCHANGED <<heap, autoLog>>
    /\ UNCHANGED <<callable, globalVars>>

ClearAll ==
    /\ factory' = clearAll(factory)
    /\ last' = Call("clearAll")
    /\ queueLog' = NoLog
    /\ servedLog' = NoLog
    /\ alwaysLog' = [c \in AllCtors |-> undefined]
    /\ autoLog' = <<>>
    /\ UNCHANGED heap
    /\ UNCHANGED <<callable, globalVars>>

Register(obj, id) ==
    LET r == register(factory, obj, id) IN
    /\ r.self.autoIdCounter <= MaxCounter
    /\ factory' = r.self
    /\ last' = [Call("register") EXCEPT !.obj = <<obj>>, !.id = id,
                                        !.retId = <<r.result>>]
    /\ autoLog' = IF getRegisteredId(factory, obj) = undefined /\ ~Truthy(id)
                  THEN Append(autoLog, r.result) ELSE autoLog
    /\ UNCHANGED <<heap, queueLog, servedLog, alwaysLog>>
    /\ UNCHANGED <<callable, globalVars>>

\* const createService = factory.create(ctor)
Bind(ctor) ==
    /\ callable' = <<createCallable(factory, ctor)>>
    /\ last' = [Call("bind") EXCEPT !.ctor = <<ctor>>]
    /\ UNCHANGED <<factory, heap, factoryLogs, globalVars>>

\* createService(...args)
Invoke(args) ==
    /\ callable # undefined
    /\ LET ctor    == callable[1].ctor
           r       == invoke(callable[1], factory, heap, args)
           pending == Len(queueLog[ctor]) - Len(servedLog[ctor])
       IN /\ Len(r.heap) <= MaxObjects
          /\ factory' = r.self
          /\ heap' = r.heap
          /\ last' = [Call("invoke") EXCEPT !.ctor = <<ctor>>, !.args = args,
                                            !.retObj = IF r.threw THEN undefined
                                                       ELSE <<r.result>>,
                                            !.threw = r.threw,
                                            !.constructed = r.constructed,
                                            !.hookCalls = r.hookCalls,
                                            !.pending = pending]
          /\ servedLog' = IF pending > 0
                          THEN [servedLog EXCEPT ![ctor] = Append(@, r.result)]
                          ELSE servedLog
    /\ UNCHANGED <<queueLog, alwaysLog, autoLog, callable, globalVars>>

GetRegistered(id) ==
    /\ last' = [Call("getRegistered") EXCEPT !.id = <<id>>,
                     !.retObj = getRegistered(factory, id)]
    /\ UNCHANGED <<factory, heap, queueLog, servedLog, alwaysLog, autoLog>>
    /\ UNCHANGED <<callable, globalVars>>

GetRegisteredId(obj) ==
    /\ last' = [Call("getRegisteredId") EXCEPT !.obj = <<obj>>,
                     !.retId = getRegisteredId(factory, obj)]
    /\ UNCHANGED <<factory, heap, queueLog, servedLog, alwaysLog, autoLog>>
    /\ UNCHANGED <<callable, globalVars>>

\* the arguments of a call, each absent unless the call has it
NoArgs ==
    [ ctor     |-> undefined,
      args     |-> <<>>,
      instance |-> undefined,
      obj      |-> undefined,
      id       |-> undefined ]

\* const instance = getInstance()
GetInstance ==
    LET i == getInstance(globalInstance, factoryCount) IN
    /\ globalInstance' = i.global
    /\ factoryCount' = i.count
    /\ last' = [Call("getInstance") EXCEPT !.target = "global",
                                           !.retInstance = <<i.result>>]
    /\ UNCHANGED <<factory, heap, factoryLogs, callable, globalAlways>>

\* via = "free":   op(...), the free function
\* via = "method": getInstance().op(...)
\* create stands for create(ctor)(...args)
GlobalCall(via, op, a) ==
    LET i == getInstance(globalInstance, factoryCount)
        o == IF via = "free"
             THEN callFree(op, globalInstance, factoryCount, heap, a)
             ELSE callMethod(op, i, heap, a)
        self == o.global[1].state
        pending == IF op = "create"
                   THEN Len(QueueOf(i.global[1].state, a.ctor[1])) ELSE 0
    IN
    /\ Len(o.heap) <= MaxObjects
    /\ self.autoIdCounter <= MaxCounter
    /\ TotalLen([c \in Ctors |-> QueueOf(self, c)], Ctors) <= MaxQueue
    /\ globalInstance' = o.global
    /\ factoryCount' = o.count
    /\ heap' = o.heap
    /\ last' = [Call(op) EXCEPT !.target = "global", !.via = via,
                                !.ctor = a.ctor, !.args = a.args,
                                !.instance = a.instance, !.obj = a.obj,
                                !.id = a.id,
                                !.retObj = o.retObj, !.retId = o.retId,
                                !.constructed = o.constructed,
                                !.hookCalls = o.hookCalls,
                                !.threw = o.threw,
                                !.pending = pending]
    /\ globalAlways' =
          CASE op = "setAlways" ->
                 [globalAlways EXCEPT ![a.ctor[1]] =
                     <<[instance |-> a.instance[1], via |-> via]>>]
            [] op = "clear" /\ a.ctor # undefined ->
                 [globalAlways EXCEPT ![a.ctor[1]] = undefined]
            [] op = "clearAll" -> [c \in Ctors |-> undefined]
            [] OTHER -> globalAlways
    /\ UNCHANGED <<factory, factoryLogs, callable>>

(***************************************************************************)
(* SpecCreate: the construction facility, every constructor and mock.      *)
(***************************************************************************)
NextCreate ==
    \/ \E ctor \in Ctors, args \in ArgLists : Create(ctor, args)
    \/ \E ctor \in Ctors, instance \in Mocks : SetOne(ctor, instance)
    \/ \E ctor \in Ctors, instance \in Mocks : SetAlways(ctor, instance)
    \/ \E ctor \in OptionalCtors : Clear(ctor)
    \/ ClearAll

SpecCreate == Init /\ [][NextCreate]_vars

(***************************************************************************)
(* SpecRegister: the object registry, every object and id.                 *)
(***************************************************************************)
NextRegister ==
    \/ \E obj \in Objects, id \in OptionalIds : Register(obj, id)
    \/ \E id \in LookupIds : GetRegistered(id)
    \/ \E obj \in Objects : GetRegisteredId(obj)
    \/ ClearAll

SpecRegister == Init /\ [][NextRegister]_vars

(***************************************************************************)
(* SpecThrow: the construction facility with a constructor that throws.    *)
(***************************************************************************)
NextThrow ==
    \/ \E ctor \in AllCtors, args \in ArgLists : Create(ctor, args)
    \/ \E ctor \in AllCtors : SetOne(ctor, 1)
    \/ \E ctor \in AllCtors : SetAlways(ctor, 2)
    \/ \E ctor \in AllCtors : Clear(<<ctor>>)
    \/ ClearAll

SpecThrow == Init /\ [][NextThrow]_vars

(***************************************************************************)
(* SpecCurry: a function returned by create(ctor) is kept and called while *)
(* the overrides change.                                                   *)
(***************************************************************************)
NextCurry ==
    \/ \E ctor \in Ctors : Bind(ctor)
    \/ \E args \in ArgLists : Invoke(args)
    \/ \E ctor \in Ctors : SetOne(ctor, 1)
    \/ \E ctor \in Ctors : SetAlways(ctor, 2)
    \/ \E ctor \in Ctors : Clear(<<ctor>>)
    \/ ClearAll

SpecCurry == Init /\ [][NextCurry]_vars

(***************************************************************************)
(* SpecGlobal: the shared factory, reached through the free functions and  *)
(* through getInstance().                                                  *)
(***************************************************************************)
Routes == {"free", "method"}

NextGlobal ==
    \/ GetInstance
    \/ \E via \in Routes, ctor \in Ctors :
          GlobalCall(via, "create", [NoArgs EXCEPT !.ctor = <<ctor>>])
    \/ \E via \in Routes :
          GlobalCall(via, "setOne", [NoArgs EXCEPT !.ctor = <<"TestClass">>,
                                                  !.instance = <<1>>])
    \/ \E via \in Routes, ctor \in Ctors :
          GlobalCall(via, "setAlways", [NoArgs EXCEPT !.ctor = <<ctor>>,
                                                     !.instance = <<2>>])
    \/ \E via \in Routes, ctor \in OptionalCtors :
          GlobalCall(via, "clear", [NoArgs EXCEPT !.ctor = ctor])
    \/ \E via \in Routes : GlobalCall(via, "clearAll", NoArgs)
    \/ \E via \in Routes, id \in {undefined, <<"first">>} :
          GlobalCall(via, "register", [NoArgs EXCEPT !.obj = <<1>>,
                                                    !.id = id])
    \/ \E via \in Routes :
          GlobalCall(via, "getRegistered", [NoArgs EXCEPT !.id = <<"first">>])

SpecGlobal == Init /\ [][NextGlobal]_vars

(***************************************************************************)
(* SpecIsolation: the factory of the test and the shared factory side by   *)
(* side, one constructor, one mock each.                                   *)
(***************************************************************************)
NextIsolation ==
    \/ Create("TestClass", <<>>)
    \/ SetOne("TestClass", 1)
    \/ SetAlways("TestClass", 1)
    \/ Clear(<<"TestClass">>)
    \/ ClearAll
    \/ Register(1, undefined)
    \/ GetInstance
    \/ \E via \in Routes :
          GlobalCall(via, "create", [NoArgs EXCEPT !.ctor = <<"TestClass">>])
    \/ GlobalCall("free", "setOne", [NoArgs EXCEPT !.ctor = <<"TestClass">>,
                                                   !.instance = <<2>>])
    \/ GlobalCall("free", "setAlways",
                  [NoArgs EXCEPT !.ctor = <<"TestClass">>,
                                 !.instance = <<2>>])
    \/ GlobalCall("free", "clear", [NoArgs EXCEPT !.ctor = <<"TestClass">>])
    \/ \E via \in Routes : GlobalCall(via, "clearAll", NoArgs)
    \/ GlobalCall("free", "register", [NoArgs EXCEPT !.obj = <<1>>])

SpecIsolation == Init /\ [][NextIsolation]_vars

(***************************************************************************)
(* Spec: every operation of the class on one factory, with one mock, one   *)
(* argument list and the ids the tests use.                                *)
(***************************************************************************)
Next ==
    \/ \E ctor \in Ctors : Create(ctor, <<>>)
    \/ \E ctor \in Ctors : SetOne(ctor, 1)
    \/ \E ctor \in Ctors : SetAlways(ctor, 1)
    \/ \E ctor \in OptionalCtors : Clear(ctor)
    \/ ClearAll
    \/ \E obj \in Mocks, id \in {undefined, <<"first">>} : Register(obj, id)
    \/ \E id \in {"first", AutoId(1)} : GetRegistered(id)
    \/ \E obj \in Mocks : GetRegisteredId(obj)

Spec == Init /\ [][Next]_vars

(***************************************************************************)
(* Properties.  They are stated on `last`, the record of the latest call,  *)
(* and on the logs of the calls made, never on the code of the operations. *)
(***************************************************************************)
\* the latest call was create(ctor)(...)
Created(ctor) == last.op = "create" /\ last.ctor = <<ctor>>

\* the fields, before the latest call, of the factory it was made on: the
\* factory of the test or the shared one, which is new when the call made it
CalledBefore ==
    IF last.target = "global"
    THEN IF last.preGlobal = undefined THEN ObjectFactory
         ELSE last.preGlobal[1].state
    ELSE last.pre

\* the fields that factory has now
CalledNow ==
    IF last.target = "global" THEN globalInstance[1].state ELSE factory

\* the latest call allocated an object
Allocated == Len(heap) > last.preObjects

\* C1: whatever the order of setOne and setAlways, create(T)(args) returns
\* the oldest instance queued and not yet served when there is one, the
\* instance of the latest setAlways only when there is none, and allocates a
\* new object only when there is neither.
C1_Precedence ==
    \A T \in Ctors : Created(T) =>
        /\ last.pending > 0 =>
              /\ last.retObj =
                    <<queueLog[T][Len(queueLog[T]) - last.pending + 1]>>
              /\ ~Allocated
        /\ (last.pending = 0 /\ alwaysLog[T] # undefined) =>
              /\ last.retObj = alwaysLog[T]
              /\ ~Allocated
        /\ Allocated => (last.pending = 0 /\ alwaysLog[T] = undefined)
        /\ (last.pending = 0 /\ alwaysLog[T] = undefined) =>
              (Allocated /\ last.retObj = <<Len(heap)>>)

\* a create call served a queued instance although a different persistent
\* override was set for the constructor
C1_Witness ==
    \E T \in Ctors :
        /\ Created(T)
        /\ last.pending > 0
        /\ alwaysLog[T] # undefined
        /\ last.retObj # alwaysLog[T]

\* C2: the instances served from the queue of T are, in order, the instances
\* passed to setOne(T, ...), the unserved ones are exactly what is left in
\* the queue, and once all of them are served (and no persistent override is
\* set) the next create(T)() allocates a new object.
C2_Fifo ==
    \A T \in Ctors :
        /\ queueLog[T] = servedLog[T] \o QueueOf(factory, T)
        /\ (Created(T) /\ last.pending = 0 /\ alwaysLog[T] = undefined) =>
              (Allocated /\ last.retObj = <<Len(heap)>>)

\* two different instances were queued and served, and the third create
\* constructed
C2_Witness ==
    \E T \in Ctors :
        /\ Created(T)
        /\ last.pending = 0
        /\ Len(servedLog[T]) = 2
        /\ servedLog[T][1] # servedLog[T][2]
        /\ QueueOf(factory, T) = <<>>
        /\ Allocated

\* C3: while the queue of T is empty and a persistent override is set,
\* create(T)(args) returns the instance of the latest setAlways(T, ...) and
\* leaves every field of the factory as it was.
C3_AlwaysSame ==
    \A T \in Ctors :
        (Created(T) /\ QueueOf(last.pre, T) = <<>> /\ alwaysLog[T] # undefined)
        => (last.retObj = alwaysLog[T] /\ factory = last.pre)

\* create returned a persistent override after the queue of the constructor
\* had been used and exhausted
C3_Witness ==
    \E T \in Ctors :
        /\ Created(T)
        /\ MapHas(last.pre.queuedObjects, T)
        /\ QueueOf(last.pre, T) = <<>>
        /\ alwaysLog[T] # undefined
        /\ last.retObj = alwaysLog[T]

\* C4: a create call that constructs an instance whose class has a callable
\* constructorCalledWith calls it once, on that instance, with one descriptor
\* per argument: {index: zero-based position, type: typeof, value}; it makes
\* no call when the class has no such member.
C4_HookParams ==
    (last.op = "create" /\ Allocated) =>
        LET instance == Len(heap) IN
        /\ last.retObj = <<instance>>
        /\ IF MemberType(heap[instance]) = "function"
           THEN /\ Len(last.hookCalls) = 1
                /\ last.hookCalls[1].instance = instance
                /\ Len(last.hookCalls[1].params) = Len(last.args)
                /\ \A i \in 1..Len(last.args) :
                      last.hookCalls[1].params[i] =
                          [ index |-> i - 1,
                            type  |-> TypeOf(last.args[i]),
                            value |-> last.args[i] ]
           ELSE last.hookCalls = <<>>

\* a TrackedService was constructed from ('localhost', 8080, null) and was
\* told so
C4_Witness ==
    /\ last.op = "create"
    /\ Allocated
    /\ Len(last.args) = 3
    /\ Len(last.hookCalls) = 1
    /\ last.hookCalls[1].params[3].type = "object"

\* C5: a create call that returns a queued instance or a persistent override
\* allocates nothing and calls no constructorCalledWith, also when the
\* returned object has a callable constructorCalledWith.
C5_NoHookOnOverride ==
    \A T \in Ctors :
        (Created(T) /\ (last.pending > 0 \/ alwaysLog[T] # undefined)) =>
            /\ ~Allocated
            /\ last.constructed = undefined
            /\ last.hookCalls = <<>>

\* create returned a queued object that has a callable constructorCalledWith
C5_Witness ==
    /\ last.op = "create"
    /\ last.pending > 0
    /\ last.retObj # undefined
    /\ MemberType(heap[last.retObj[1]]) = "function"

\* what create can observe of a factory: per constructor, the queued
\* instances and the persistent override
Overrides(self) ==
    [ c \in Ctors |-> [ queue  |-> QueueOf(self, c),
                        always |-> MapGet(self.alwaysObjects, c) ] ]

\* the latest call was clear(ctor)
Cleared(ctor) == last.op = "clear" /\ last.ctor = <<ctor>>

\* C6: clear(T) leaves T without queued instances and without persistent
\* override, so that the next create(T)(args) constructs; the queue and the
\* override of every other constructor are as before; when T had no entry
\* nothing changes.
C6_ClearType ==
    \A T \in Ctors : Cleared(T) =>
        /\ QueueOf(factory, T) = <<>>
        /\ MapGet(factory.alwaysObjects, T) = undefined
        /\ \A args \in ArgLists :
              create(factory, heap, T, args).constructed # undefined
        /\ \A U \in Ctors \ {T} :
              /\ MapGet(factory.queuedObjects, U) =
                     MapGet(last.pre.queuedObjects, U)
              /\ MapGet(factory.alwaysObjects, U) =
                     MapGet(last.pre.alwaysObjects, U)
        /\ factory.registeredObjects = last.pre.registeredObjects
        /\ factory.registeredIds = last.pre.registeredIds
        /\ factory.autoIdCounter = last.pre.autoIdCounter
        /\ (~MapHas(last.pre.queuedObjects, T)
               /\ ~MapHas(last.pre.alwaysObjects, T)) => factory = last.pre
        /\ (QueueOf(last.pre, T) = <<>>
               /\ ~MapHas(last.pre.alwaysObjects, T)) =>
              Overrides(factory) = Overrides(last.pre)

\* clear(T) removed a queued instance and a persistent override of T while
\* another constructor kept its own queued instance and override
C6_Witness ==
    \E T \in Ctors, U \in Ctors :
        /\ U # T
        /\ Cleared(T)
        /\ QueueOf(last.pre, T) # <<>>
        /\ MapHas(last.pre.alwaysObjects, T)
        /\ QueueOf(factory, U) # <<>>
        /\ MapHas(factory.alwaysObjects, U)

\* C7: after clearAll() every field of the factory has its initial value: no
\* queue, no persistent override, no id for any object, no object for any
\* id, and register(obj) without id returns auto_1.
C7_ClearAll ==
    last.op = "clearAll" =>
        /\ factory = ObjectFactory
        /\ \A c \in Ctors :
              /\ QueueOf(factory, c) = <<>>
              /\ MapGet(factory.alwaysObjects, c) = undefined
        /\ \A id \in LookupIds : getRegistered(factory, id) = undefined
        /\ \A obj \in Objects : getRegisteredId(factory, obj) = undefined
        /\ \A obj \in Objects :
              register(factory, obj, undefined).result = "auto_1"

\* clearAll() was called on a factory with a queued instance, a persistent
\* override, a registered object and an advanced counter
C7_Witness ==
    /\ last.op = "clearAll"
    /\ \E c \in Ctors : QueueOf(last.pre, c) # <<>>
    /\ \E c \in Ctors : MapHas(last.pre.alwaysObjects, c)
    /\ \E obj \in Objects : MapHas(last.pre.registeredIds, obj)
    /\ last.pre.autoIdCounter > 1

\* C8: the two maps of the registry are inverse of each other:
\* getRegisteredId(o) is l exactly when getRegistered(l) is o.
C8_Bijection ==
    \A obj \in Objects, id \in LookupIds :
        (getRegisteredId(factory, obj) = <<id>>)
            <=> (getRegistered(factory, id) = <<obj>>)

\* the latest call was register(obj, ...) on an object that had an id
Reregistered(obj) ==
    /\ last.op = "register"
    /\ last.obj = <<obj>>
    /\ getRegisteredId(CalledBefore, obj) # undefined

\* C9: register on a registered object, without id or with the id it has,
\* returns that id and changes no field of the factory.
C9_ReregisterNoChange ==
    \A obj \in Objects :
        (/\ Reregistered(obj)
         /\ last.id \in {undefined, getRegisteredId(last.pre, obj)})
        => /\ last.retId = getRegisteredId(last.pre, obj)
           /\ factory = last.pre

\* C10: the k-th id generated for an unregistered object since construction
\* or the last clearAll() is auto_k.
C10_Consecutive ==
    \A k \in 1..Len(autoLog) : autoLog[k] = AutoId(k)

\* the latest call was register(obj, id) taking the branch that relabels:
\* obj had an id and the id passed is truthy and another one
Relabelled(obj) ==
    /\ Reregistered(obj)
    /\ Truthy(last.id)
    /\ last.id # getRegisteredId(CalledBefore, obj)

\* C11 as claimed: register(obj, label) on an object registered under another
\* label returns the old label and leaves the object under the new label.
C11_ReturnsOldLabel ==
    \A obj \in Objects :
        ( /\ Reregistered(obj)
          /\ last.id # undefined
          /\ last.id # getRegisteredId(last.pre, obj) ) =>
        /\ last.retId = getRegisteredId(last.pre, obj)
        /\ getRegisteredId(factory, obj) = last.id

\* C11: register(obj, label) with a non-empty label on an object registered
\* under another label returns the old label and leaves the object under the
\* new label.
C11_ReturnsOldLabelNonEmpty ==
    \A obj \in Objects : Relabelled(obj) =>
        /\ last.retId = getRegisteredId(last.pre, obj)
        /\ getRegisteredId(factory, obj) = last.id

\* an object was relabelled: the call answered the label it had and the
\* registry now gives the label it was passed
C11_Witness ==
    \E obj \in Objects :
        /\ Relabelled(obj)
        /\ last.retId # last.id
        /\ getRegisteredId(factory, obj) = last.id
        /\ getRegisteredId(factory, obj) # last.retId

\* C12 as claimed: after register(obj, newLabel) on an object registered
\* under a different oldLabel, oldLabel gives nothing, newLabel gives obj,
\* obj has newLabel, and every other object has the label it had.
C12_Relabel ==
    \A obj \in Objects :
        ( /\ Reregistered(obj)
          /\ last.id # undefined
          /\ last.id # getRegisteredId(last.pre, obj) ) =>
        /\ getRegistered(factory, getRegisteredId(last.pre, obj)[1]) = undefined
        /\ getRegistered(factory, last.id[1]) = <<obj>>
        /\ getRegisteredId(factory, obj) = last.id
        /\ \A other \in Objects \ {obj} :
              getRegisteredId(factory, other) = getRegisteredId(last.pre, other)

\* C12: the same, for a non-empty newLabel.
C12_RelabelNonEmpty ==
    \A obj \in Objects : Relabelled(obj) =>
        /\ getRegistered(factory, getRegisteredId(last.pre, obj)[1]) = undefined
        /\ getRegistered(factory, last.id[1]) = <<obj>>
        /\ getRegisteredId(factory, obj) = last.id
        /\ \A other \in Objects \ {obj} :
              getRegisteredId(factory, other) = getRegisteredId(last.pre, other)

\* an object was relabelled while another object was registered, and the old
\* label did give the object before
C12_Witness ==
    \E obj \in Objects, other \in Objects :
        /\ other # obj
        /\ Relabelled(obj)
        /\ getRegistered(last.pre, getRegisteredId(last.pre, obj)[1]) = <<obj>>
        /\ getRegisteredId(last.pre, other) # undefined
        /\ getRegisteredId(factory, obj) = last.id

\* the latest call was register(obj, ...) on an object that had no id
Registered(obj) ==
    /\ last.op = "register"
    /\ last.obj = <<obj>>
    /\ getRegisteredId(CalledBefore, obj) = undefined

\* C13: on an unregistered object, register(obj, label) with a non-empty
\* label records label -> obj and obj -> label, returns label and leaves the
\* counter; register(obj) records and returns auto_<counter> and adds one to
\* the counter.
C13_FirstRegistration ==
    \A obj \in Objects : Registered(obj) =>
        /\ Truthy(last.id) =>
              /\ last.retId = last.id
              /\ factory.autoIdCounter = last.pre.autoIdCounter
        /\ last.id = undefined =>
              /\ last.retId = <<AutoId(last.pre.autoIdCounter)>>
              /\ factory.autoIdCounter = last.pre.autoIdCounter + 1
        /\ (Truthy(last.id) \/ last.id = undefined) =>
              /\ getRegistered(factory, last.retId[1]) = <<obj>>
              /\ getRegisteredId(factory, obj) = last.retId
              /\ \A other \in Objects \ {obj} :
                    getRegisteredId(factory, other) =
                        getRegisteredId(last.pre, other)
              /\ \A id \in LookupIds \ {last.retId[1]} :
                    getRegistered(factory, id) = getRegistered(last.pre, id)

\* an unregistered object was registered under an explicit label after the
\* counter had advanced
C13_Witness ==
    \E obj \in Objects :
        /\ Registered(obj)
        /\ last.id = <<"first">>
        /\ last.retId = <<"first">>
        /\ last.pre.autoIdCounter = 2
        /\ getRegistered(factory, "first") = <<obj>>

\* the latest call was setAlways(ctor, ...)
AlwaysSet(ctor) == last.op = "setAlways" /\ last.ctor = <<ctor>>

\* C17: setAlways(T, m) replaces whatever override T had, so that with an
\* empty queue create(T)() returns m; it changes nothing else, and changes
\* nothing at all when m already was the override of T.
C17_LastWriteWins ==
    \A T \in Ctors : AlwaysSet(T) =>
        /\ MapGet(factory.alwaysObjects, T) = last.instance
        /\ QueueOf(factory, T) = <<>> =>
              \A args \in ArgLists :
                  <<create(factory, heap, T, args).result>> = last.instance
        /\ \A U \in Ctors \ {T} :
              MapGet(factory.alwaysObjects, U) =
                  MapGet(last.pre.alwaysObjects, U)
        /\ [factory EXCEPT !.alwaysObjects = last.pre.alwaysObjects] = last.pre
        /\ MapGet(last.pre.alwaysObjects, T) = last.instance =>
              factory = last.pre

\* setAlways(T, m2) replaced a different override m1 of T whose queue was
\* empty
C17_Witness ==
    \E T \in Ctors :
        /\ AlwaysSet(T)
        /\ MapGet(last.pre.alwaysObjects, T) # undefined
        /\ MapGet(last.pre.alwaysObjects, T) # last.instance
        /\ QueueOf(factory, T) = <<>>
        /\ MapGet(factory.alwaysObjects, T) = last.instance

\* C18: clear(T) leaves both maps of the registry of ids and the counter as
\* they were.
C18_ClearKeepsRegistry ==
    last.op = "clear" =>
        /\ factory.registeredObjects = last.pre.registeredObjects
        /\ factory.registeredIds = last.pre.registeredIds
        /\ factory.autoIdCounter = last.pre.autoIdCounter
        /\ \A obj \in Objects :
              getRegisteredId(factory, obj) = getRegisteredId(last.pre, obj)
        /\ \A id \in LookupIds :
              getRegistered(factory, id) = getRegistered(last.pre, id)

\* clear(T) removed an override of T on a factory with a registered object
\* and an advanced counter
C18_Witness ==
    \E T \in Ctors, obj \in Objects :
        /\ Cleared(T)
        /\ MapHas(last.pre.alwaysObjects, T)
        /\ ~MapHas(factory.alwaysObjects, T)
        /\ getRegisteredId(factory, obj) # undefined
        /\ factory.autoIdCounter > 1

\* number of positions of seq that hold x
Occurrences(seq, x) == Cardinality({i \in 1..Len(seq) : seq[i] = x})

\* C20: an instance queued n times for T is served n times: every setOne
\* adds one entry whether or not the instance is already queued, every
\* instance is served and left in the queue as often as it was queued, and
\* once the queue is used up create falls back to the override or constructs.
C20_NoDedup ==
    \A T \in Ctors :
        /\ (last.op = "setOne" /\ last.ctor = <<T>>) =>
              QueueOf(factory, T) =
                  Append(QueueOf(last.pre, T), last.instance[1])
        /\ \A x \in Objects :
              Occurrences(queueLog[T], x) =
                  Occurrences(servedLog[T], x)
                      + Occurrences(QueueOf(factory, T), x)
        /\ (Created(T) /\ last.pending = 0) =>
              \/ Allocated
              \/ alwaysLog[T] # undefined /\ last.retObj = alwaysLog[T]

\* the same instance was queued twice and served twice, and the next create
\* constructed
C20_Witness ==
    \E T \in Ctors, x \in Mocks :
        /\ Created(T)
        /\ queueLog[T] = <<x, x>>
        /\ servedLog[T] = <<x, x>>
        /\ last.pending = 0
        /\ Allocated

\* C16: when the constructor throws inside create(T)(args) the call ends
\* with that error and nothing is returned, every field of the factory is as
\* before the call, no object is added, and no queued instance of any
\* constructor is consumed; the constructor is only reached, and so the call
\* only fails, when T has no queued instance and no override.
C16_ThrowLeavesState ==
    \A T \in AllCtors : Created(T) =>
        /\ last.threw <=> (/\ ConstructorThrows(T, last.args)
                           /\ last.pending = 0
                           /\ alwaysLog[T] = undefined)
        /\ last.threw =>
              /\ last.retObj = undefined
              /\ last.hookCalls = <<>>
              /\ factory = last.pre
              /\ ~Allocated
              /\ \A U \in AllCtors :
                    queueLog[U] = servedLog[U] \o QueueOf(factory, U)

\* a construction failed while an instance was queued and an override set
\* for other constructors, and while the queue of the failing constructor had
\* been used up
C16_Witness ==
    \E T \in FailingCtors, U \in Ctors, V \in Ctors :
        /\ Created(T)
        /\ last.threw
        /\ MapHas(factory.queuedObjects, T)
        /\ QueueOf(factory, U) # <<>>
        /\ MapHas(factory.alwaysObjects, V)

\* the latest call was a call of the kept function, made for ctor
Invoked(ctor) == last.op = "invoke" /\ last.ctor = <<ctor>>

\* C19: a call of a function obtained from create(T) earlier is resolved on
\* the factory as it is when the call is made: it serves the oldest unserved
\* queued instance, else the latest override, else constructs, and it has the
\* result and the effect of a call of a function obtained just before it.
C19_NoCaching ==
    \A T \in Ctors : Invoked(T) =>
        /\ last.pending > 0 =>
              last.retObj =
                  <<queueLog[T][Len(queueLog[T]) - last.pending + 1]>>
        /\ (last.pending = 0 /\ alwaysLog[T] # undefined) =>
              last.retObj = alwaysLog[T]
        /\ (last.pending = 0 /\ alwaysLog[T] = undefined) =>
              (Allocated /\ last.retObj = <<Len(heap)>>)
        /\ LET fresh == invoke(createCallable(last.pre, T), last.pre,
                               SubSeq(heap, 1, last.preObjects), last.args)
           IN /\ last.retObj = <<fresh.result>>
              /\ factory = fresh.self
              /\ heap = fresh.heap
              /\ last.hookCalls = fresh.hookCalls

\* a function obtained while T had no override and an empty queue returned
\* the override that was set afterwards
C19_Witness ==
    \E T \in Ctors :
        /\ Invoked(T)
        /\ callable # undefined
        /\ callable[1].ctor = T
        /\ ~MapHas(callable[1].boundAt.alwaysObjects, T)
        /\ QueueOf(callable[1].boundAt, T) = <<>>
        /\ alwaysLog[T] # undefined
        /\ last.retObj = alwaysLog[T]

\* C14: the shared factory does not exist before the first call that needs
\* it, that call constructs it, and from then on no step replaces it:
\* getInstance returns the one object, also after clearAll.
C14_Singleton ==
    [][ /\ globalInstance # undefined =>
              /\ globalInstance' # undefined
              /\ globalInstance'[1].ref = globalInstance[1].ref
              /\ factoryCount' = factoryCount
        /\ (globalInstance = undefined /\ globalInstance' # undefined) =>
              /\ last'.target = "global"
              /\ factoryCount' = factoryCount + 1
              /\ globalInstance'[1].ref = factoryCount'
        /\ last'.op = "getInstance" =>
              /\ globalInstance' # undefined
              /\ last'.retInstance = <<globalInstance'[1].ref>>
      ]_vars

\* getInstance returned the shared factory it had returned before, after the
\* shared factory was cleared by clearAll
C14_Witness ==
    /\ last.op = "getInstance"
    /\ last.preGlobal # undefined
    /\ last.retInstance = <<last.preGlobal[1].ref>>
    /\ last.preGlobal[1].state = ObjectFactory
    /\ factoryCount = 2

\* the latest call was the free function op
FreeCall(op) ==
    last.target = "global" /\ last.via = "free" /\ last.op = op

\* the arguments of the latest call
LastArgs ==
    [ ctor     |-> last.ctor,
      args     |-> last.args,
      instance |-> last.instance,
      obj      |-> last.obj,
      id       |-> last.id ]

\* the free functions
FreeFunctions ==
    {"create", "setOne", "setAlways", "clear", "clearAll", "register",
     "getRegistered"}

\* C15: a call of a free function returns what the method of that name
\* returns on the factory getInstance() returns and leaves that factory as the
\* method leaves it; and create, by either route, returns the override that
\* the latest setAlways, by either route, set on the shared factory.
C15_FreeFunctions ==
    /\ \A op \in FreeFunctions : FreeCall(op) =>
          LET before == SubSeq(heap, 1, last.preObjects)
              o == callMethod(op, getInstance(last.preGlobal, last.preCount),
                              before, LastArgs)
          IN /\ globalInstance = o.global
             /\ factoryCount = o.count
             /\ heap = o.heap
             /\ last.retObj = o.retObj
             /\ last.retId = o.retId
             /\ last.constructed = o.constructed
             /\ last.hookCalls = o.hookCalls
             /\ last.threw = o.threw
    /\ \A T \in Ctors :
          ( /\ last.target = "global"
            /\ last.op = "create"
            /\ last.ctor = <<T>>
            /\ last.preGlobal # undefined
            /\ QueueOf(last.preGlobal[1].state, T) = <<>>
            /\ globalAlways[T] # undefined )
          => last.retObj = <<globalAlways[T][1].instance>>

\* create through getInstance() returned the override that the free function
\* setAlways had set
C15_Witness ==
    \E T \in Ctors :
        /\ last.target = "global"
        /\ last.op = "create"
        /\ last.via = "method"
        /\ last.ctor = <<T>>
        /\ globalAlways[T] # undefined
        /\ globalAlways[T][1].via = "free"
        /\ last.retObj = <<globalAlways[T][1].instance>>

\* the latest call was a lookup, by id or by object
LookedUp == last.op \in {"getRegistered", "getRegisteredId"}

\* C21: getRegistered(id) and getRegisteredId(obj) change nothing: the fields
\* of the factory and the objects are as before the call.  They return
\* undefined when the id or the object is not in the registry and otherwise
\* the object or the id the registry holds for it.
C21_PureLookups ==
    /\ LookedUp =>
          /\ factory = last.pre
          /\ Len(heap) = last.preObjects
          /\ ~last.threw
    /\ last.op = "getRegistered" =>
          LET id == last.id[1] IN
          IF MapHas(last.pre.registeredObjects, id)
          THEN last.retObj = <<last.pre.registeredObjects[id]>>
          ELSE last.retObj = undefined
    /\ last.op = "getRegisteredId" =>
          LET obj == last.obj[1] IN
          IF MapHas(last.pre.registeredIds, obj)
          THEN last.retId = <<last.pre.registeredIds[obj]>>
          ELSE last.retId = undefined

\* an id that no object has was looked up in a registry that holds objects,
\* and undefined came back
C21_Witness ==
    /\ last.op = "getRegistered"
    /\ last.retObj = undefined
    /\ DOMAIN last.pre.registeredObjects # {}
    /\ ~MapHas(last.pre.registeredObjects, last.id[1])
    /\ factory = last.pre

\* the latest call was register(obj, "") on an object that had no id
RegisteredEmpty(obj) == Registered(obj) /\ last.id = <<"">>

\* C22: register(obj, "") on an unregistered object records "" as the id of
\* the object and returns it, generates no auto_<N> and leaves the counter.
C22_EmptyLabelProvided ==
    \A obj \in Objects : RegisteredEmpty(obj) =>
        /\ last.retId = <<"">>
        /\ getRegisteredId(factory, obj) = <<"">>
        /\ getRegistered(factory, "") = <<obj>>
        /\ factory.autoIdCounter = last.pre.autoIdCounter

\* C22, as the code has it: register(obj, "") on an unregistered object is
\* register(obj): it records and returns auto_<counter>, adds one to the
\* counter, and records nothing under "".
C22_EmptyLabelOmitted ==
    \A obj \in Objects : RegisteredEmpty(obj) =>
        /\ last.retId = <<AutoId(last.pre.autoIdCounter)>>
        /\ getRegisteredId(factory, obj) = last.retId
        /\ getRegistered(factory, last.retId[1]) = <<obj>>
        /\ getRegistered(factory, "") = undefined
        /\ factory.autoIdCounter = last.pre.autoIdCounter + 1

\* register(obj, "") on an unregistered object returned auto_2
C22_Witness ==
    \E obj \in Objects :
        /\ RegisteredEmpty(obj)
        /\ last.pre.autoIdCounter = 2
        /\ last.retId = <<AutoId(2)>>
        /\ factory.autoIdCounter = 3

\* the latest call was setOne(ctor, ...)
QueuedOne(ctor) == last.op = "setOne" /\ last.ctor = <<ctor>>

\* C23: setAlways(T, x) leaves every queue, setOne(T, x) leaves every
\* persistent override, and a create(T)() that is served from the queue of T
\* leaves every persistent override and the queue of every other constructor.
C23_TablesIndependent ==
    \A T \in Ctors :
        /\ AlwaysSet(T) =>
              /\ factory.queuedObjects = last.pre.queuedObjects
              /\ \A U \in Ctors :
                    Len(queueLog[U]) - Len(servedLog[U])
                        = Len(QueueOf(factory, U))
        /\ QueuedOne(T) =>
              /\ factory.alwaysObjects = last.pre.alwaysObjects
              /\ \A U \in Ctors :
                    MapGet(factory.alwaysObjects, U) = alwaysLog[U]
        /\ (Created(T) /\ last.pending > 0) =>
              /\ factory.alwaysObjects = last.pre.alwaysObjects
              /\ \A U \in Ctors :
                    MapGet(factory.alwaysObjects, U) = alwaysLog[U]
              /\ \A U \in Ctors \ {T} :
                    QueueOf(factory, U) = QueueOf(last.pre, U)
              /\ QueueOf(factory, T) = Tail(QueueOf(last.pre, T))

\* setAlways(T, x) was called while an instance was queued for T and another
\* for a second constructor, and both are still queued
C23_Witness ==
    \E T \in Ctors, U \in Ctors :
        /\ T # U
        /\ AlwaysSet(T)
        /\ QueueOf(last.pre, T) # <<>>
        /\ QueueOf(factory, T) = QueueOf(last.pre, T)
        /\ QueueOf(factory, U) # <<>>

\* the operations of the construction facility and of the labelling facility
ConstructionOps == {"create", "setOne", "setAlways", "clear"}

LabellingOps == {"register", "getRegistered", "getRegisteredId"}

\* what the test sees of create(ctor)(...args) on the factory self
Observed(self, h, ctor, args) ==
    LET r == create(self, h, ctor, args)
    IN [ result      |-> r.result,
         threw       |-> r.threw,
         heap        |-> r.heap,
         constructed |-> r.constructed,
         hookCalls   |-> r.hookCalls,
         queues      |-> r.self.queuedObjects,
         always      |-> r.self.alwaysObjects ]

\* C24: create, setOne, setAlways and clear leave the two maps of the
\* registry and the counter; register, getRegistered and getRegisteredId leave
\* the queues and the persistent overrides, and a create call made after one
\* of them returns what it would have returned before it.
C24_FacilitiesIndependent ==
    /\ (last.target = "factory" /\ last.op \in ConstructionOps) =>
          /\ factory.registeredObjects = last.pre.registeredObjects
          /\ factory.registeredIds = last.pre.registeredIds
          /\ factory.autoIdCounter = last.pre.autoIdCounter
    /\ (last.target = "factory" /\ last.op \in LabellingOps) =>
          /\ factory.queuedObjects = last.pre.queuedObjects
          /\ factory.alwaysObjects = last.pre.alwaysObjects
          /\ Len(heap) = last.preObjects
          /\ \A ctor \in Ctors, args \in ArgLists :
                Observed(factory, heap, ctor, args)
                    = Observed(last.pre, heap, ctor, args)

\* an object was registered on a factory that had a queued instance, a
\* persistent override and a label, and the queue and the override are as
\* they were
C24_Witness ==
    /\ last.op = "register"
    /\ factory.registeredIds # last.pre.registeredIds
    /\ DOMAIN last.pre.registeredIds # {}
    /\ \E T \in Ctors : QueueOf(factory, T) # <<>>
    /\ \E T \in Ctors : MapHas(factory.alwaysObjects, T)

\* C25: the shared factory is another object than the factory of the test.
\* A call on the factory of the test leaves the shared factory, and a call on
\* the shared factory, by either route, leaves the factory of the test; each
\* create is resolved by the setOne and setAlways calls made on its own
\* factory only.
C25_Isolation ==
    /\ globalInstance # undefined => globalInstance[1].ref # 1
    /\ (last.target = "factory" /\ last.op # "new") =>
          /\ globalInstance = last.preGlobal
          /\ factoryCount = last.preCount
    /\ last.target = "global" => factory = last.pre
    /\ \A T \in Ctors :
          /\ (last.target = "factory" /\ Created(T) /\ last.pending = 0) =>
                IF alwaysLog[T] # undefined
                THEN last.retObj = alwaysLog[T]
                ELSE Allocated /\ last.retObj = <<Len(heap)>>
          /\ ( /\ last.target = "global"
               /\ last.op = "create"
               /\ last.ctor = <<T>>
               /\ last.preGlobal # undefined
               /\ QueueOf(last.preGlobal[1].state, T) = <<>> ) =>
                IF globalAlways[T] # undefined
                THEN last.retObj = <<globalAlways[T][1].instance>>
                ELSE Allocated /\ last.retObj = <<Len(heap)>>

\* the free function clearAll emptied a shared factory that had an override,
\* and the factory of the test still has its override and its label
C25_Witness ==
    /\ last.target = "global"
    /\ last.via = "free"
    /\ last.op = "clearAll"
    /\ last.preGlobal # undefined
    /\ DOMAIN last.preGlobal[1].state.alwaysObjects # {}
    /\ globalInstance[1].state = ObjectFactory
    /\ DOMAIN factory.alwaysObjects # {}
    /\ DOMAIN factory.registeredIds # {}

\* the latest call was clear() without a constructor
ClearedNothing ==
    last.target = "factory" /\ last.op = "clear" /\ last.ctor = undefined

\* C26: clear() without a constructor changes no field of the factory: the
\* queues, the persistent overrides, the two maps of the registry and the
\* counter are as before, so every instance queued or set is still served
\* and every label still found.
C26_ClearNoType ==
    ClearedNothing =>
        /\ factory = last.pre
        /\ Len(heap) = last.preObjects
        /\ \A T \in Ctors :
              /\ Len(QueueOf(factory, T))
                    = Len(queueLog[T]) - Len(servedLog[T])
              /\ MapGet(factory.alwaysObjects, T) = alwaysLog[T]

\* clear() was called on a factory with a queued instance, a persistent
\* override, a registered object and an advanced counter, which clearAll()
\* would have emptied, and all are still there
C26_Witness ==
    /\ ClearedNothing
    /\ \E T \in Ctors : QueueOf(factory, T) # <<>>
    /\ DOMAIN factory.alwaysObjects # {}
    /\ DOMAIN factory.registeredObjects # {}
    /\ factory.autoIdCounter > 1
    /\ factory # clearAll(factory)

\* the latest call was create(ctor)(...) with nothing queued for ctor that
\* was not served yet and no persistent override set for it
CreatedPlain(ctor) ==
    /\ Created(ctor)
    /\ last.pending = 0
    /\ IF last.target = "global" THEN globalAlways[ctor] = undefined
       ELSE alwaysLog[ctor] = undefined

\* C27: create(T)(args) with no override for T returns an instance of T that
\* did not exist before the call, so that it is none of the objects returned,
\* queued or set before, and it leaves the fields of the factory.
C27_FreshInstance ==
    \A T \in Ctors : CreatedPlain(T) =>
        /\ ~last.threw
        /\ Len(heap) = last.preObjects + 1
        /\ last.retObj = <<Len(heap)>>
        /\ last.retObj[1] \notin 1..last.preObjects
        /\ heap[last.retObj[1]] = T
        /\ \A U \in Ctors :
              /\ \A k \in 1..Len(queueLog[U]) :
                    queueLog[U][k] # last.retObj[1]
              /\ \A k \in 1..Len(servedLog[U]) :
                    servedLog[U][k] # last.retObj[1]
              /\ alwaysLog[U] # last.retObj
        /\ factory = last.pre

\* T had a queued instance that was served and an object was constructed
\* before; the call constructed a further one
C27_Witness ==
    \E T \in Ctors :
        /\ CreatedPlain(T)
        /\ queueLog[T] # <<>>
        /\ last.preObjects > Len(InitialHeap)
        /\ last.retObj = <<Len(heap)>>
        /\ \E U \in Ctors : alwaysLog[U] # undefined

====
